---------------------------- MODULE Spec2Model ----------------------------
(***************************************************************************)
(* bevy_pkv: one key-value store per build, backed by the filesystem       *)
(* (fs_store.rs), by a redb table (redb_store.rs) or by the browser's      *)
(* local storage (local_storage_store.rs).  The model keeps the backing    *)
(* storage of each backend, the serialised form of every value (JSON text  *)
(* as a sequence of characters, MessagePack as a sequence of bytes) and    *)
(* the most recent call with its outcome.  Properties of two consecutive   *)
(* calls are stated over a step: last is the earlier call, last' the later.*)
(***************************************************************************)
EXTENDS Integers, Sequences, FiniteSets, TLC

(***************************************************************************)
(* Bound of the model: the number of keys callers use.  KeyPool is in      *)
(* lexicographic order, the order in which a redb table iterates.          *)
(***************************************************************************)
NumKeys == 2

KeyPool == <<"bbk", "bk", "k">>

Keys == {KeyPool[i] : i \in 1..NumKeys}

(***************************************************************************)
(* Values a caller stores: an integer, a string, or the one-field struct   *)
(* S { x: integer }.  Types names the target types of get.                 *)
(***************************************************************************)
IntVal(n) == [t |-> "int", n |-> n]
StrVal(s) == [t |-> "str", s |-> s]
StructVal(n) == [t |-> "struct", x |-> n]

StrValues == {StrVal(<<"h", "i">>)}
Values == {IntVal(42)} \cup StrValues \cup {StructVal(7)}
Types == {"int", "str", "struct"}

(***************************************************************************)
(* Results of a call: Ok(x), Err(variant) or a panic of the caller.        *)
(***************************************************************************)
Ok(x) == [kind |-> "ok", val |-> x]
Err(e) == [kind |-> "err", err |-> e]
Panic == [kind |-> "panic"]
Unit == [t |-> "unit"]

IsOk(r) == r.kind = "ok"

(***************************************************************************)
(* serde_json::to_string and serde_json::from_str on the values above.     *)
(***************************************************************************)
DigitChars == <<"0", "1", "2", "3", "4", "5", "6", "7", "8", "9">>

IsDigit(c) == \E d \in 1..10 : DigitChars[d] = c

DigitOf(c) == (CHOOSE d \in 1..10 : DigitChars[d] = c) - 1

RECURSIVE Digits(_)
Digits(n) ==
    IF n < 10 THEN <<DigitChars[n + 1]>>
    ELSE Digits(n \div 10) \o <<DigitChars[(n % 10) + 1]>>

RECURSIVE DigitsValue(_)
DigitsValue(s) ==
    IF s = <<>> THEN 0
    ELSE 10 * DigitsValue(SubSeq(s, 1, Len(s) - 1)) + DigitOf(s[Len(s)])

JsonInt(n) == IF n < 0 THEN <<"-">> \o Digits(-n) ELSE Digits(n)

JsonStr(s) == <<"\"">> \o s \o <<"\"">>

StructOpen == <<"{", "\"", "x", "\"", ":">>

(* to_json with a string written without its closing quote *)
to_json_unterminated(value) ==
    CASE value.t = "int" -> JsonInt(value.n)
      [] value.t = "str" -> <<"\"">> \o value.s
      [] value.t = "struct" -> StructOpen \o JsonInt(value.x) \o <<"}">>

to_json(value) ==
    CASE value.t = "int" -> JsonInt(value.n)
      [] value.t = "str" -> JsonStr(value.s)
      [] value.t = "struct" -> StructOpen \o JsonInt(value.x) \o <<"}">>

IsJsonNumber(text) ==
    LET body == IF text # <<>> /\ text[1] = "-" THEN Tail(text) ELSE text IN
    /\ body # <<>>
    /\ \A i \in 1..Len(body) : IsDigit(body[i])
    /\ (Len(body) > 1 => body[1] # "0")

JsonNumber(text) ==
    IF text[1] = "-" THEN 0 - DigitsValue(Tail(text)) ELSE DigitsValue(text)

IsJsonString(text) ==
    /\ Len(text) >= 2
    /\ text[1] = "\""
    /\ text[Len(text)] = "\""
    /\ \A i \in 2..(Len(text) - 1) : text[i] \notin {"\"", "\\"}

(* Ok(value) or Err("Json"): the text parsed as the target type ty *)
from_json(text, ty) ==
    CASE ty = "int" ->
           IF IsJsonNumber(text) THEN Ok(IntVal(JsonNumber(text))) ELSE Err("Json")
      [] ty = "str" ->
           IF IsJsonString(text)
           THEN Ok(StrVal(SubSeq(text, 2, Len(text) - 1)))
           ELSE Err("Json")
      [] ty = "struct" ->
           LET n == Len(StructOpen) IN
           IF /\ Len(text) > n + 1
              /\ SubSeq(text, 1, n) = StructOpen
              /\ text[Len(text)] = "}"
              /\ IsJsonNumber(SubSeq(text, n + 1, Len(text) - 1))
           THEN Ok(StructVal(JsonNumber(SubSeq(text, n + 1, Len(text) - 1))))
           ELSE Err("Json")

(***************************************************************************)
(* rmp_serde on the same values.  A struct is written as a one-entry map   *)
(* by a serializer built with_struct_map and as a one-element array by     *)
(* rmp_serde::to_vec; the deserializer reads either.                       *)
(***************************************************************************)
Letters == <<<<"h", 104>>, <<"i", 105>>, <<"x", 120>>>>

CharCode(c) ==
    IF IsDigit(c) THEN 48 + DigitOf(c)
    ELSE Letters[CHOOSE i \in 1..Len(Letters) : Letters[i][1] = c][2]

IsCharCode(b) ==
    \/ b \in 48..57
    \/ \E i \in 1..Len(Letters) : Letters[i][2] = b

CodeChar(b) ==
    IF b \in 48..57 THEN DigitChars[b - 47]
    ELSE Letters[CHOOSE i \in 1..Len(Letters) : Letters[i][2] = b][1]

RmpInt(n) ==
    CASE n \in 0..127 -> <<n>>
      [] n \in -32..-1 -> <<256 + n>>
      [] n \in 128..255 -> <<204, n>>

RmpStr(s) == <<160 + Len(s)>> \o [i \in 1..Len(s) |-> CharCode(s[i])]

rmp_encode(value, struct_map) ==
    CASE value.t = "int" -> RmpInt(value.n)
      [] value.t = "str" -> RmpStr(value.s)
      [] value.t = "struct" ->
           IF struct_map
           THEN <<129>> \o RmpStr(<<"x">>) \o RmpInt(value.x)
           ELSE <<145>> \o RmpInt(value.x)

IsRmpInt(bytes) ==
    /\ bytes # <<>>
    /\ \/ bytes[1] \in 0..127
       \/ bytes[1] \in 224..255
       \/ bytes[1] = 204 /\ Len(bytes) >= 2

RmpIntValue(bytes) ==
    CASE bytes[1] \in 0..127 -> bytes[1]
      [] bytes[1] \in 224..255 -> bytes[1] - 256
      [] bytes[1] = 204 -> bytes[2]

IsRmpStr(bytes) ==
    /\ bytes # <<>>
    /\ bytes[1] \in 160..191
    /\ Len(bytes) >= 1 + (bytes[1] - 160)
    /\ \A i \in 2..(1 + (bytes[1] - 160)) : IsCharCode(bytes[i])

RmpStrValue(bytes) == [i \in 1..(bytes[1] - 160) |-> CodeChar(bytes[i + 1])]

(* Ok(value) or Err("MessagePack"): the bytes read as the target type ty *)
rmp_decode(bytes, ty) ==
    CASE ty = "int" ->
           IF IsRmpInt(bytes) THEN Ok(IntVal(RmpIntValue(bytes)))
           ELSE Err("MessagePack")
      [] ty = "str" ->
           IF IsRmpStr(bytes) THEN Ok(StrVal(RmpStrValue(bytes)))
           ELSE Err("MessagePack")
      [] ty = "struct" ->
           LET name == RmpStr(<<"x">>) IN
           IF /\ bytes # <<>> /\ bytes[1] = 129
              /\ Len(bytes) > 1 + Len(name)
              /\ SubSeq(bytes, 2, 1 + Len(name)) = name
              /\ IsRmpInt(SubSeq(bytes, 2 + Len(name), Len(bytes)))
           THEN Ok(StructVal(RmpIntValue(SubSeq(bytes, 2 + Len(name), Len(bytes)))))
           ELSE IF /\ bytes # <<>> /\ bytes[1] = 145
                   /\ IsRmpInt(Tail(bytes))
           THEN Ok(StructVal(RmpIntValue(Tail(bytes))))
           ELSE Err("MessagePack")


(***************************************************************************)
(* State.                                                                  *)
(*   backend        the backend the build selected                         *)
(*   dir            filesystem backend: the files of the store directory,  *)
(*                  path -> text                                           *)
(*   table_exists   redb backend: whether the table "redb" exists          *)
(*   table          redb backend: the rows of the table, key -> bytes      *)
(*   local_storage  browser backend: the host's storage, item key -> text  *)
(*   last           the most recent call: what was asked, the fault the    *)
(*                  environment injected into one of its storage calls     *)
(*                  ("none" when every storage call behaved), and what     *)
(*                  came back                                              *)
(***************************************************************************)
VARIABLES backend, dir, table_exists, table, local_storage, last

vars == <<backend, dir, table_exists, table, local_storage, last>>

Backends == {"fs", "redb", "ls"}

Empty == [x \in {} |-> <<>>]

Put(f, k, v) == [x \in DOMAIN f \cup {k} |-> IF x = k THEN v ELSE f[x]]

Del(f, k) == [x \in DOMAIN f \ {k} |-> f[x]]

Restrict(f, S) == [x \in DOMAIN f \cap S |-> f[x]]

Call(op, store, key, val, ty, fault, res) ==
    [op |-> op, store |-> store, key |-> key, val |-> val, ty |-> ty,
     fault |-> fault, res |-> res]

NoKey == ""
NoTy == ""
NoStore == 0

(***************************************************************************)
(* Filesystem backend (fs_store.rs).                                       *)
(***************************************************************************)
FsPath == "pkv"

FS_format_key(path, key) == path \o "/" \o key

(* fs::write: create (truncating) the file, then write all of the text *)
FsWrite(d, file, text, fail) ==
    CASE fail = "create" -> d
      [] fail = "write_all" -> Put(d, file, <<>>)
      [] OTHER -> Put(d, file, text)

FsSetFaults == {"none", "create", "write_all"}

FS_set_result(fail) == IF fail = "none" THEN Ok(Unit) ELSE Err("File")

FS_set ==
    /\ backend = "fs"
    /\ \E key \in Keys, value \in Values, fail \in FsSetFaults :
         /\ dir' = FsWrite(dir, FS_format_key(FsPath, key), to_json(value), fail)
         /\ last' = Call("set", NoStore, key, value, NoTy, fail, FS_set_result(fail))
    /\ UNCHANGED <<backend, table_exists, table, local_storage>>

FS_set_string ==
    /\ backend = "fs"
    /\ \E key \in Keys, value \in StrValues, fail \in FsSetFaults :
         /\ dir' = FsWrite(dir, FS_format_key(FsPath, key), to_json(value), fail)
         /\ last' = Call("set_string", NoStore, key, value, NoTy, fail,
                         FS_set_result(fail))
    /\ UNCHANGED <<backend, table_exists, table, local_storage>>

FsGetFaults == {"none", "read_to_string"}

FS_get_result(d, key, ty, fail) ==
    LET file == FS_format_key(FsPath, key) IN
    IF fail = "read_to_string" \/ file \notin DOMAIN d THEN Err("File")
    ELSE from_json(d[file], ty)

FS_get ==
    /\ backend = "fs"
    /\ \E key \in Keys, ty \in Types, fail \in FsGetFaults :
         last' = Call("get", NoStore, key, Unit, ty, fail,
                      FS_get_result(dir, key, ty, fail))
    /\ UNCHANGED <<backend, dir, table_exists, table, local_storage>>

FS_get_with ==
    /\ backend = "fs"
    /\ \E key \in Keys, ty \in Types :
         last' = Call("get_with", NoStore, key, Unit, ty, "none", Panic)
    /\ UNCHANGED <<backend, dir, table_exists, table, local_storage>>

FsRemoveFaults == {"none", "remove_file"}

FS_remove_result(d, key, fail) ==
    IF fail = "remove_file" \/ FS_format_key(FsPath, key) \notin DOMAIN d
    THEN Err("File")
    ELSE Ok(Unit)

FS_remove ==
    /\ backend = "fs"
    /\ \E key \in Keys, fail \in FsRemoveFaults :
         LET res == FS_remove_result(dir, key, fail) IN
         /\ dir' = IF IsOk(res) THEN Del(dir, FS_format_key(FsPath, key)) ELSE dir
         /\ last' = Call("remove", NoStore, key, Unit, NoTy, fail, res)
    /\ UNCHANGED <<backend, table_exists, table, local_storage>>

(* clear: read_dir, then for each entry remove_file, whose result is      *)
(* dropped.  visited: the entries the loop reached before it returned     *)
(* (all of them unless read_dir or an entry failed); undeletable: the     *)
(* visited entries whose remove_file failed.                              *)
FsClearFaults == {"none", "read_dir", "entry", "remove_file"}

FS_clear_result(fail) ==
    IF fail \in {"read_dir", "entry"} THEN Err("File") ELSE Ok(Unit)

FS_clear ==
    /\ backend = "fs"
    /\ \E fail \in FsClearFaults, visited \in SUBSET DOMAIN dir :
         \E undeletable \in SUBSET visited :
           /\ fail \in {"none", "remove_file"} => visited = DOMAIN dir
           /\ fail = "read_dir" => visited = {}
           /\ fail = "remove_file" <=> undeletable # {}
           /\ dir' = Restrict(dir, (DOMAIN dir \ visited) \cup undeletable)
           /\ last' = Call("clear", NoStore, NoKey, Unit, NoTy, fail,
                           FS_clear_result(fail))
    /\ UNCHANGED <<backend, table_exists, table, local_storage>>

(***************************************************************************)
(* redb backend (redb_store.rs).  A write transaction that is dropped      *)
(* before commit is aborted; a write transaction's open_table creates the  *)
(* table when it is missing, a read transaction's open_table fails then.   *)
(***************************************************************************)
ReDbWriteFaults == {"none", "begin_write", "open_table", "insert", "commit"}

ReDb_set_result(fail) ==
    CASE fail = "begin_write" -> Err("ReDbTransactionError")
      [] fail = "open_table" -> Panic
      [] fail = "insert" -> Err("ReDbStorageError")
      [] fail = "commit" -> Err("ReDbCommitError")
      [] OTHER -> Ok(Unit)

(* ReDbInsert that keeps the row of a key already in the table *)
ReDbInsert_keep_existing(key, bytes, fail) ==
    /\ table' = IF fail = "none" /\ key \notin DOMAIN table
                THEN Put(table, key, bytes) ELSE table
    /\ table_exists' = IF fail = "none" THEN TRUE ELSE table_exists

ReDbInsert(key, bytes, fail) ==
    /\ table' = IF fail = "none" THEN Put(table, key, bytes) ELSE table
    /\ table_exists' = IF fail = "none" THEN TRUE ELSE table_exists

ReDb_set ==
    /\ backend = "redb"
    /\ \E key \in Keys, value \in Values, fail \in ReDbWriteFaults :
         /\ ReDbInsert(key, rmp_encode(value, TRUE), fail)
         /\ last' = Call("set", NoStore, key, value, NoTy, fail,
                         ReDb_set_result(fail))
    /\ UNCHANGED <<backend, dir, local_storage>>

ReDb_set_string ==
    /\ backend = "redb"
    /\ \E key \in Keys, value \in StrValues, fail \in ReDbWriteFaults :
         /\ ReDbInsert(key, rmp_encode(value, FALSE), fail)
         /\ last' = Call("set_string", NoStore, key, value, NoTy, fail,
                         ReDb_set_result(fail))
    /\ UNCHANGED <<backend, dir, local_storage>>

ReDbGetFaults == {"none", "begin_read", "open_table", "get"}

ReDb_get_result(exists, tbl, key, ty, fail) ==
    IF fail = "begin_read" THEN Err("ReDbTransactionError")
    ELSE IF fail = "open_table" \/ ~exists THEN Err("ReDbTableError")
    ELSE IF fail = "get" THEN Err("ReDbStorageError")
    ELSE IF key \notin DOMAIN tbl THEN Err("NotFound")
    ELSE rmp_decode(tbl[key], ty)

ReDb_get ==
    /\ backend = "redb"
    /\ \E key \in Keys, ty \in Types, fail \in ReDbGetFaults :
         last' = Call("get", NoStore, key, Unit, ty, fail,
                      ReDb_get_result(table_exists, table, key, ty, fail))
    /\ UNCHANGED <<backend, dir, table_exists, table, local_storage>>

ReDb_get_with ==
    /\ backend = "redb"
    /\ \E key \in Keys, seed \in Types, fail \in ReDbGetFaults :
         last' = Call("get_with", NoStore, key, Unit, seed, fail,
                      ReDb_get_result(table_exists, table, key, seed, fail))
    /\ UNCHANGED <<backend, dir, table_exists, table, local_storage>>

ReDbClearFaults == {"none", "begin_write", "delete_table", "commit"}

ReDb_clear_result(fail) ==
    CASE fail = "begin_write" -> Err("ReDbTransactionError")
      [] fail = "delete_table" -> Err("ReDbTableError")
      [] fail = "commit" -> Err("ReDbCommitError")
      [] OTHER -> Ok(Unit)

ReDb_clear ==
    /\ backend = "redb"
    /\ \E fail \in ReDbClearFaults :
         /\ table' = IF fail = "none" THEN Empty ELSE table
         /\ table_exists' = IF fail = "none" THEN FALSE ELSE table_exists
         /\ last' = Call("clear", NoStore, NoKey, Unit, NoTy, fail,
                         ReDb_clear_result(fail))
    /\ UNCHANGED <<backend, dir, local_storage>>

ReDbRemoveFaults == {"none", "begin_write", "open_table", "remove", "commit"}

(* ReDb_remove_result without the ok_or(KeyConversion) on a missing key *)
ReDb_remove_result_lenient(tbl, key, fail) ==
    IF fail = "begin_write" THEN Err("ReDbTransactionError")
    ELSE IF fail = "open_table" THEN Err("ReDbTableError")
    ELSE IF fail = "remove" THEN Err("ReDbStorageError")
    ELSE IF fail = "commit" THEN Err("ReDbCommitError")
    ELSE Ok(Unit)

ReDb_remove_result(tbl, key, fail) ==
    IF fail = "begin_write" THEN Err("ReDbTransactionError")
    ELSE IF fail = "open_table" THEN Err("ReDbTableError")
    ELSE IF fail = "remove" THEN Err("ReDbStorageError")
    ELSE IF key \notin DOMAIN tbl THEN Err("KeyConversion")
    ELSE IF fail = "commit" THEN Err("ReDbCommitError")
    ELSE Ok(Unit)

ReDb_remove ==
    /\ backend = "redb"
    /\ \E key \in Keys, fail \in ReDbRemoveFaults :
         LET res == ReDb_remove_result(table, key, fail) IN
         /\ table' = IF IsOk(res) THEN Del(table, key) ELSE table
         /\ table_exists' = IF IsOk(res) THEN TRUE ELSE table_exists
         /\ last' = Call("remove", NoStore, key, Unit, NoTy, fail, res)
    /\ UNCHANGED <<backend, dir, local_storage>>

ReDbKeysFaults == {"none", "begin_read", "open_table", "iter", "item"}

KeysOf(tbl) == SelectSeq(KeyPool, LAMBDA k : k \in DOMAIN tbl)

ReDb_keys_result(exists, tbl, fail) ==
    IF fail = "begin_read" THEN Err("ReDbTransactionError")
    ELSE IF fail = "open_table" \/ ~exists THEN Err("ReDbTableError")
    ELSE IF fail = "iter" THEN Err("ReDbStorageError")
    ELSE IF fail = "item" THEN Panic
    ELSE Ok(KeysOf(tbl))

ReDb_keys ==
    /\ backend = "redb"
    /\ \E fail \in ReDbKeysFaults :
         /\ fail = "item" => DOMAIN table # {}
         /\ last' = Call("keys", NoStore, NoKey, Unit, NoTy, fail,
                         ReDb_keys_result(table_exists, table, fail))
    /\ UNCHANGED <<backend, dir, table_exists, table, local_storage>>

(***************************************************************************)
(* Browser local-storage backend (local_storage_store.rs).  Every store    *)
(* of the page shares the host's storage; a store is told apart by the     *)
(* prefix LS_new derives from its StoreConfig.                             *)
(***************************************************************************)
ConfigPool ==
    << [qualifier |-> <<"q">>, organization |-> "o", application |-> "a"],
       [qualifier |-> <<>>, organization |-> "q.o", application |-> "ab"] >>

Stores == DOMAIN ConfigPool

LS_new(config) ==
    IF config.qualifier # <<>>
    THEN config.qualifier[1] \o "." \o config.organization \o "."
         \o config.application
    ELSE config.organization \o "." \o config.application

LS_format_key(prefix, key) == prefix \o key

LS_item(store, key) == LS_format_key(LS_new(ConfigPool[store]), key)

LsSetFaults == {"none", "storage", "set_item"}

LS_set_result(fail) ==
    CASE fail = "storage" -> Panic
      [] fail = "set_item" -> Err("SetItem")
      [] OTHER -> Ok(Unit)

LS_set ==
    /\ backend = "ls"
    /\ \E store \in Stores, key \in Keys, value \in Values, fail \in LsSetFaults :
         /\ local_storage' =
              IF fail = "none"
              THEN Put(local_storage, LS_item(store, key), to_json(value))
              ELSE local_storage
         /\ last' = Call("set", store, key, value, NoTy, fail, LS_set_result(fail))
    /\ UNCHANGED <<backend, dir, table_exists, table>>

LS_set_string ==
    /\ backend = "ls"
    /\ \E store \in Stores, key \in Keys, value \in StrValues, fail \in LsSetFaults :
         /\ local_storage' =
              IF fail = "none"
              THEN Put(local_storage, LS_item(store, key), to_json(value))
              ELSE local_storage
         /\ last' = Call("set_string", store, key, value, NoTy, fail,
                         LS_set_result(fail))
    /\ UNCHANGED <<backend, dir, table_exists, table>>

LsGetFaults == {"none", "storage", "get_item"}

LS_get_result(host, store, key, ty, fail) ==
    IF fail = "storage" THEN Panic
    ELSE IF fail = "get_item" THEN Err("GetItem")
    ELSE IF LS_item(store, key) \notin DOMAIN host THEN Err("NotFound")
    ELSE LET value == from_json(host[LS_item(store, key)], ty) IN
         IF IsOk(value) THEN value ELSE Panic

LS_get ==
    /\ backend = "ls"
    /\ \E store \in Stores, key \in Keys, ty \in Types, fail \in LsGetFaults :
         last' = Call("get", store, key, Unit, ty, fail,
                      LS_get_result(local_storage, store, key, ty, fail))
    /\ UNCHANGED <<backend, dir, table_exists, table, local_storage>>

(***************************************************************************)
(* The store after construction, and the calls a program can make on it.   *)
(***************************************************************************)
Init ==
    /\ backend \in Backends
    /\ dir = Empty
    /\ table_exists = TRUE
    /\ table = Empty
    /\ local_storage = Empty
    /\ last = Call("new", NoStore, NoKey, Unit, NoTy, "none", Ok(Unit))

Next ==
    \/ FS_set
    \/ FS_set_string
    \/ FS_get
    \/ FS_get_with
    \/ FS_remove
    \/ FS_clear
    \/ ReDb_set
    \/ ReDb_set_string
    \/ ReDb_get
    \/ ReDb_get_with
    \/ ReDb_clear
    \/ ReDb_remove
    \/ ReDb_keys
    \/ LS_set
    \/ LS_set_string
    \/ LS_get

Spec == Init /\ [][Next]_vars

(***************************************************************************)
(* What a caller of the selected backend observes, with no injected fault. *)
(***************************************************************************)
GetIn(d, exists, tbl, host, store, key, ty) ==
    CASE backend = "fs" -> FS_get_result(d, key, ty, "none")
      [] backend = "redb" -> ReDb_get_result(exists, tbl, key, ty, "none")
      [] backend = "ls" -> LS_get_result(host, store, key, ty, "none")

GetNow(store, key, ty) ==
    GetIn(dir, table_exists, table, local_storage, store, key, ty)

GetNext(store, key, ty) ==
    GetIn(dir', table_exists', table', local_storage', store, key, ty)

Absent(store, key) ==
    CASE backend = "fs" -> FS_format_key(FsPath, key) \notin DOMAIN dir
      [] backend = "redb" -> key \notin DOMAIN table
      [] backend = "ls" -> LS_item(store, key) \notin DOMAIN local_storage

(* the stored representation of a present key, decoded as ty *)
StoredAs(store, key, ty) ==
    CASE backend = "fs" -> from_json(dir[FS_format_key(FsPath, key)], ty)
      [] backend = "redb" -> rmp_decode(table[key], ty)
      [] backend = "ls" -> from_json(local_storage[LS_item(store, key)], ty)

DecodeError ==
    CASE backend = "redb" -> Err("MessagePack")
      [] OTHER -> Err("Json")

StoreUnchanged ==
    UNCHANGED <<dir, table_exists, table, local_storage>>

(***************************************************************************)
(* C1.  Round trip, on every backend: when a successful set(k, v) is       *)
(* immediately followed by get(k) with v's type, and no storage call of    *)
(* the get fails, the get returns Ok(v).                                   *)
(***************************************************************************)
C1_RoundTrip ==
    [][(/\ last.op = "set" /\ IsOk(last.res)
        /\ last'.op = "get" /\ last'.fault = "none"
        /\ last'.store = last.store /\ last'.key = last.key
        /\ last'.ty = last.val.t)
       => last'.res = Ok(last.val)]_vars

C1_Witness ==
    /\ backend = "redb"
    /\ last.op = "get" /\ last.fault = "none"
    /\ last.res = Ok(StructVal(7))

(***************************************************************************)
(* C2.  Overwrite, on every backend: when a successful set(k, v1) is       *)
(* immediately followed by a successful set(k, v2), the store then holds   *)
(* an entry for k, get(k) with v2's type returns Ok(v2), and for v1 # v2   *)
(* no get(k), whatever the target type, returns v1.                        *)
(***************************************************************************)
C2_Overwrite ==
    [][(/\ last.op = "set" /\ IsOk(last.res)
        /\ last'.op = "set" /\ IsOk(last'.res)
        /\ last'.store = last.store /\ last'.key = last.key)
       => /\ GetNext(last'.store, last'.key, last'.val.t) = Ok(last'.val)
          /\ last.val # last'.val =>
               \A ty \in Types : GetNext(last'.store, last'.key, ty) # Ok(last.val)]_vars

C2_Witness ==
    /\ backend = "fs"
    /\ last.op = "set" /\ IsOk(last.res) /\ last.val = StrVal(<<"h", "i">>)
    /\ ~Absent(last.store, last.key)
    /\ GetNow(last.store, last.key, "str") = Ok(last.val)
    /\ GetNow(last.store, last.key, "int") # Ok(IntVal(42))

(***************************************************************************)
(* C3.  get(k) on a key that is absent from the store returns the          *)
(* NotFound retrieval error, on every backend (no storage call failing).   *)
(***************************************************************************)
C3_AbsentIsNotFound ==
    (/\ last.op = "get" /\ last.fault = "none"
     /\ Absent(last.store, last.key))
    => last.res = Err("NotFound")

(***************************************************************************)
(* C4.  redb: a successful clear() immediately followed by keys() (no      *)
(* storage call failing) returns Ok of the empty list.                     *)
(***************************************************************************)
C4_ClearThenKeysEmpty ==
    [][(/\ backend = "redb"
        /\ last.op = "clear" /\ IsOk(last.res)
        /\ last'.op = "keys" /\ last'.fault = "none")
       => last'.res = Ok(<<>>)]_vars

(***************************************************************************)
(* C5.  remove(k) on a key that is not in the store returns a mutation     *)
(* error (KeyConversion on redb, File on the filesystem backend, when no   *)
(* storage call fails for another reason) and leaves the store unchanged.  *)
(***************************************************************************)
C5_RemoveMissingFails ==
    [][(last'.op = "remove" /\ Absent(last'.store, last'.key))
       => /\ last'.res.kind = "err"
          /\ last'.fault = "none" =>
               last'.res = Err(IF backend = "redb" THEN "KeyConversion" ELSE "File")
          /\ StoreUnchanged]_vars

C5_Witness ==
    /\ backend = "redb"
    /\ last.op = "remove" /\ last.fault = "none"
    /\ last.res = Err("KeyConversion")
    /\ DOMAIN table # {}

(***************************************************************************)
(* C6.  No call returns success when a storage call it made failed; in     *)
(* particular the filesystem clear() does not return success while an      *)
(* entry it tried to delete is still present.                              *)
(***************************************************************************)
C6_FailuresSurfaced ==
    /\ last.fault # "none" => ~IsOk(last.res)
    /\ (backend = "fs" /\ last.op = "clear" /\ IsOk(last.res)) => DOMAIN dir = {}

(***************************************************************************)
(* C7.  get(k) on a key whose stored representation does not decode into   *)
(* the target type returns the backend's decode error (Json, MessagePack)  *)
(* rather than aborting the caller.                                        *)
(***************************************************************************)
C7_UndecodableIsError ==
    (/\ last.op = "get" /\ last.fault = "none"
     /\ ~Absent(last.store, last.key)
     /\ ~IsOk(StoredAs(last.store, last.key, last.ty)))
    => last.res = DecodeError

(***************************************************************************)
(* C8.  redb: keys() (no storage call failing) returns Ok of a list that   *)
(* holds every key of the table exactly once and nothing else.             *)
(***************************************************************************)
C8_KeysExact ==
    (/\ backend = "redb"
     /\ last.op = "keys" /\ last.fault = "none")
    => /\ IsOk(last.res)
       /\ {last.res.val[i] : i \in 1..Len(last.res.val)} = DOMAIN table
       /\ Len(last.res.val) = Cardinality(DOMAIN table)

(***************************************************************************)
(* C9.  Filesystem and redb: once clear() has returned success, no key     *)
(* that was stored before it is retrievable (get returns an error), and a  *)
(* successful set(k, v) right after the clear makes get(k) return Ok(v).   *)
(***************************************************************************)
C9_ClearRemovesAll ==
    [][/\ (last'.op = "clear" /\ IsOk(last'.res)) =>
            \A key \in Keys, ty \in Types :
              ~Absent(NoStore, key) => ~IsOk(GetNext(NoStore, key, ty))
       /\ (/\ backend \in {"fs", "redb"}
           /\ last.op = "clear" /\ IsOk(last.res)
           /\ last'.op = "set" /\ IsOk(last'.res)) =>
            GetNext(NoStore, last'.key, last'.val.t) = Ok(last'.val)]_vars

(***************************************************************************)
(* C10.  Browser local storage: stores built from different application    *)
(* identities never overwrite each other's entries: a set in one store     *)
(* changes the result of no get in another.                                *)
(***************************************************************************)
C10_NamespaceIsolation ==
    [][(backend = "ls" /\ last'.op \in {"set", "set_string"})
       => \A other \in Stores \ {last'.store}, key \in Keys, ty \in Types :
            LS_get_result(local_storage', other, key, ty, "none")
              = LS_get_result(local_storage, other, key, ty, "none")]_vars
=============================================================================
